---- MODULE Spec2Model ----
(***************************************************************************)
(* Model of the chat page of multi_agent_chatbot_frontend/src/App.js: the  *)
(* App component's state (messages, input, agentStatus, isSending), the    *)
(* handlers handleSend / onKeyDown / onChange, the backend client          *)
(* sendMessageToBackend, the simulator simulateAgentResponse and the       *)
(* 1200 ms status-reset timer.                                             *)
(*                                                                         *)
(* Texts are sequences of one-character strings, so that trim, slice,      *)
(* toLowerCase and includes are computed character by character.  Ids are  *)
(* tuples <<prefix, now>> / <<"a", now, idx>>: the templates `u_${now}`,   *)
(* `a_${now}_${idx}` and `err_${now}` are injective in (prefix, now, idx)  *)
(* because the decimal numerals contain no underscore.                     *)
(*                                                                         *)
(* One step of the model is one task of the browser's event loop: an event *)
(* handler together with the microtasks it starts.  The state updates it   *)
(* batches are rendered before the next event is handled (React flushes    *)
(* the updates of a discrete event at its end), so every handler reads the *)
(* current state.                                                          *)
(***************************************************************************)
EXTENDS Integers, Sequences, FiniteSets, TLC

VARIABLES
    messages,     \* useState: the Message Store, a sequence of ChatMessages
    input,        \* useState: the composer's text
    agentStatus,  \* useState: agent id -> status
    isSending,    \* useState: the in-flight flag
    calls,        \* the handleSend invocations suspended at an await
    timers,       \* due times of the pending setTimeout callbacks, oldest first
    now           \* Date.now()

vars == <<messages, input, agentStatus, isSending, calls, timers, now>>

----------------------------------------------------------------------------
(* Bounds of the model. *)

MaxSends == 2      \* accepted sends per behaviour
MaxSkew == 1       \* single milliseconds the clock is sampled at after the mount
MaxDelays == 1     \* whole reset delays the clock is sampled at after the mount
MaxLen == 4        \* length of the simulator's enumerated input texts
StartTime == 100000 \* Date.now() when the component mounts

(* Program constants. *)

ResetDelay == 1200     \* setTimeout(..., 1200)
SliceLen == 60         \* text.slice(0, 60)
WelcomeRagAge == 60000     \* Date.now() - 60_000
WelcomePlannerAge == 45000 \* Date.now() - 45_000

----------------------------------------------------------------------------
(* Fixed strings of the source. *)

ragReply ==
    <<"I"," ","s","e","a","r","c","h","e","d"," ","o","u","r"," ","k","n","o","w","l","e","d",
      "g","e"," ","b","a","s","e"," ","a","n","d"," ","f","o","u","n","d"," ","r","e","l","a",
      "t","e","d"," ","i","n","s","i","g","h","t","s"," ","t","o"," ","y","o","u","r"," ","q",
      "u","e","s","t","i","o","n",".">>

plannerReplyPlan ==
    <<"H","e","r","e"," ","i","s"," ","a"," ","s","t","e","p","-","b","y","-","s","t","e","p",
      " ","p","l","a","n",":"," ","1",")"," ","A","n","a","l","y","z","e"," ","2",")"," ","R",
      "e","t","r","i","e","v","e"," ","3",")"," ","S","y","n","t","h","e","s","i","z","e"," ",
      "4",")"," ","V","a","l","i","d","a","t","e",".">>

plannerReplyGeneric ==
    <<"I"," ","w","i","l","l"," ","c","o","o","r","d","i","n","a","t","e"," ","t","h","e"," ",
      "a","g","e","n","t","s"," ","t","o"," ","c","r","a","f","t"," ","a"," ","h","e","l","p",
      "f","u","l"," ","r","e","p","l","y",".">>

errorContent ==
    <<"O","o","p","s","!"," ","S","o","m","e","t","h","i","n","g"," ","w","e","n","t"," ","w",
      "r","o","n","g"," ","t","a","l","k","i","n","g"," ","t","o"," ","t","h","e"," ","b","a",
      "c","k","e","n","d","."," ","P","l","e","a","s","e"," ","c","h","e","c","k"," ","y","o",
      "u","r"," ","c","o","n","n","e","c","t","i","o","n"," ","a","n","d"," ","t","r","y"," ",
      "a","g","a","i","n",".">>

welcomeRag ==
    <<"H","e","l","l","o","!"," ","I","'","m"," ","y","o","u","r"," ","R","A","G"," ","R","e",
      "s","e","a","r","c","h","e","r","."," ","A","s","k"," ","m","e"," ","a","n","y","t","h",
      "i","n","g"," ","a","n","d"," ","I","'","l","l"," ","f","e","t","c","h"," ","r","e","l",
      "e","v","a","n","t"," ","k","n","o","w","l","e","d","g","e"," ","t","o"," ","h","e","l",
      "p"," ","u","s",".">>

\* "U+2019" stands for the one character RIGHT SINGLE QUOTATION MARK of the source.
welcomePlanner ==
    <<"A","n","d"," ","I","U+2019","m"," ","t","h","e"," ","M","C","P"," ","P","l","a","n","n",
      "e","r","!"," ","I","U+2019","l","l"," ","o","r","g","a","n","i","z","e"," ","s","t","e",
      "p","s"," ","a","n","d"," ","c","o","o","r","d","i","n","a","t","e"," ","a","g","e","n",
      "t","s"," ","t","o"," ","b","u","i","l","d"," ","c","o","m","p","l","e","t","e"," ","a",
      "n","s","w","e","r","s",".">>

----------------------------------------------------------------------------
(* String operations of JavaScript, on sequences of characters. *)

WhiteSpace == {" ", "\t", "\n", "\r"}

UpperCase == <<"A","B","C","D","E","F","G","H","I","J","K","L","M",
               "N","O","P","Q","R","S","T","U","V","W","X","Y","Z">>
LowerCase == <<"a","b","c","d","e","f","g","h","i","j","k","l","m",
               "n","o","p","q","r","s","t","u","v","w","x","y","z">>

\* String.prototype.toLowerCase, one character
lowerChar(c) ==
    IF \E k \in DOMAIN UpperCase : UpperCase[k] = c
    THEN LowerCase[CHOOSE k \in DOMAIN UpperCase : UpperCase[k] = c]
    ELSE c

\* String.prototype.toLowerCase
toLowerCase(s) == [k \in DOMAIN s |-> lowerChar(s[k])]

\* String.prototype.includes
includes(s, sub) ==
    \E k \in 0..(Len(s) - Len(sub)) : SubSeq(s, k + 1, k + Len(sub)) = sub

\* String.prototype.slice(0, n)
slice0(s, n) == SubSeq(s, 1, IF Len(s) < n THEN Len(s) ELSE n)

\* a trim that strips the leading white space only (String.prototype.trimStart)
trimStartOnly(s) ==
    LET keep == {k \in DOMAIN s : s[k] \notin WhiteSpace} IN
    IF keep = {} THEN <<>>
    ELSE SubSeq(s, CHOOSE k \in keep : \A j \in keep : k <= j, Len(s))

\* String.prototype.trim
trim(s) ==
    LET keep == {k \in DOMAIN s : s[k] \notin WhiteSpace} IN
    IF keep = {} THEN <<>>
    ELSE SubSeq(s, CHOOSE k \in keep : \A j \in keep : k <= j,
                   CHOOSE k \in keep : \A j \in keep : j <= k)

----------------------------------------------------------------------------
(* Agents, statuses and the values the environment supplies. *)

\* EXAMPLE_AGENTS' ids
AgentIds == {"agent_rag", "agent_planner"}

Statuses == {"idle", "thinking", "responding", "error"}

\* an object literal { agent_rag: r, agent_planner: p }
StatusPair(r, p) == ("agent_rag" :> r) @@ ("agent_planner" :> p)

\* object spread { ...prev, ...upd }: upd's keys overwrite, the others are kept
Spread(prev, upd) ==
    [k \in (DOMAIN prev) \cup (DOMAIN upd) |->
        IF k \in DOMAIN upd THEN upd[k] ELSE prev[k]]

\* what the user can type into the textarea
Texts ==
    { <<" ", "\n">>,
      <<" ", "H", "o", "w", "?", "\n">> }

\* messages a backend response may carry (role, agentId?, content, timestamp?)
PayloadMsgRag ==
    [role |-> "agent", agentId |-> "agent_rag", content |-> <<"o", "k">>]
PayloadMsgTimed ==
    [role |-> "agent", agentId |-> "agent_planner", content |-> <<"g", "o">>,
     timestamp |-> 7]

\* parsed JSON bodies of a 2xx response; a record holds exactly the keys present
JsonObjects ==
    { [other |-> 0],
      [messages |-> <<PayloadMsgRag, PayloadMsgTimed>>],
      [agentStatus |-> ("agent_planner" :> "responding") @@ ("agent_x" :> "thinking")] }

\* how the fetch of one send can end: the promise rejects, or it resolves with a
\* response whose ok flag is false, or with a 2xx response whose res.json() gives
\* nothing (rejects, or parses to a falsy value: json = <<>>) or an object (<<o>>)
FetchOutcomes ==
    { [kind |-> "reject"], [kind |-> "response", ok |-> FALSE] }
    \cup { [kind |-> "response", ok |-> TRUE, json |-> <<>>] }
    \cup { [kind |-> "response", ok |-> TRUE, json |-> <<o>>] : o \in JsonObjects }

----------------------------------------------------------------------------
\* a simulator that looks for "plan" and "how" in the text as typed, not lowered
simulateCaseSensitive(text) ==
    LET helpful == includes(text, <<"p","l","a","n">>) \/ includes(text, <<"h","o","w">>)
        plannerReply == IF helpful THEN plannerReplyPlan ELSE plannerReplyGeneric
    IN  [messages |->
            << [role |-> "agent", agentId |-> "agent_rag",
                content |-> ragReply \o <<" ", "\"">> \o slice0(text, SliceLen) \o <<"\"">>],
               [role |-> "agent", agentId |-> "agent_planner",
                content |-> plannerReply] >>,
         agentStatus |-> StatusPair("responding", "thinking")]

(* simulateAgentResponse, App.js 220-244 *)

simulateAgentResponse(text) ==
    LET lower == toLowerCase(text)
        helpful == includes(lower, <<"p","l","a","n">>) \/ includes(lower, <<"h","o","w">>)
        plannerReply == IF helpful THEN plannerReplyPlan ELSE plannerReplyGeneric
    IN  [messages |->
            << [role |-> "agent", agentId |-> "agent_rag",
                content |-> ragReply \o <<" ", "\"">> \o slice0(text, SliceLen) \o <<"\"">>],
               [role |-> "agent", agentId |-> "agent_planner",
                content |-> plannerReply] >>,
         agentStatus |-> StatusPair("responding", "thinking")]

(* sendMessageToBackend, App.js 100-133: what the awaited call gives handleSend *)
(* for one outcome of the fetch: it throws, or returns data.                    *)

sendMessageToBackend(text, outcome) ==
    IF outcome.kind = "reject" THEN [threw |-> TRUE]
    ELSE IF ~outcome.ok THEN [threw |-> TRUE]
    ELSE [threw |-> FALSE,
          data |-> IF outcome.json = <<>> THEN simulateAgentResponse(text)
                   ELSE outcome.json[1]]

----------------------------------------------------------------------------
(* The App component: state after the first render, App.js 43-67 *)

InitialMessages(t) ==
    << [id |-> <<"m1">>, role |-> "agent", agentId |-> "agent_rag",
        content |-> welcomeRag, timestamp |-> t - WelcomeRagAge],
       [id |-> <<"m2">>, role |-> "agent", agentId |-> "agent_planner",
        content |-> welcomePlanner, timestamp |-> t - WelcomePlannerAge] >>

Init ==
    /\ now = StartTime
    /\ messages = InitialMessages(now)
    /\ input = <<>>
    /\ agentStatus = StatusPair("idle", "idle")
    /\ isSending = FALSE
    /\ calls = <<>>
    /\ timers = <<>>

\* the sends accepted so far: the ids handleSend made
SendCount == Cardinality({k \in DOMAIN messages : messages[k].id[1] = "u"})

\* s without its i-th element
RemoveAt(s, i) == SubSeq(s, 1, i - 1) \o SubSeq(s, i + 1, Len(s))

\* a handleSend whose early return does not test isSending
handleSendUnguarded ==
    IF trim(input) = <<>>
    THEN UNCHANGED vars
    ELSE LET userMessage ==
                 [id |-> <<"u", now>>, role |-> "user",
                  content |-> trim(input), timestamp |-> now]
         IN  /\ messages' = Append(messages, userMessage)
             /\ input' = <<>>
             /\ isSending' = TRUE
             /\ agentStatus' = Spread(agentStatus, StatusPair("thinking", "idle"))
             /\ calls' = Append(calls, [text |-> userMessage.content, stage |-> "fetch"])
             /\ UNCHANGED <<timers, now>>

\* a handleSend that clears the pending reset timers when it accepts a send
handleSendCancelsTimers ==
    IF trim(input) = <<>> \/ isSending
    THEN UNCHANGED vars
    ELSE LET userMessage ==
                 [id |-> <<"u", now>>, role |-> "user",
                  content |-> trim(input), timestamp |-> now]
         IN  /\ messages' = Append(messages, userMessage)
             /\ input' = <<>>
             /\ isSending' = TRUE
             /\ agentStatus' = Spread(agentStatus, StatusPair("thinking", "idle"))
             /\ calls' = Append(calls, [text |-> userMessage.content, stage |-> "fetch"])
             /\ timers' = <<>>
             /\ UNCHANGED now

(* handleSend up to its await, App.js 155-170 *)
handleSend ==
    IF trim(input) = <<>> \/ isSending
    THEN UNCHANGED vars
    ELSE LET userMessage ==
                 [id |-> <<"u", now>>, role |-> "user",
                  content |-> trim(input), timestamp |-> now]
         IN  /\ messages' = Append(messages, userMessage)
             /\ input' = <<>>
             /\ isSending' = TRUE
             /\ agentStatus' = Spread(agentStatus, StatusPair("thinking", "idle"))
             /\ calls' = Append(calls, [text |-> userMessage.content, stage |-> "fetch"])
             /\ UNCHANGED <<timers, now>>

\* the model accepts at most MaxSends sends; a send that is refused is never cut off
WithinBound == (trim(input) # <<>> /\ ~isSending) => SendCount < MaxSends

(* the textarea's onChange={setInput}, App.js 266 and 391 *)
OnChange ==
    \E v \in Texts :
        /\ input' = v
        /\ UNCHANGED <<messages, agentStatus, isSending, calls, timers, now>>

(* the Send button: onClick={onSend}, disabled={isSending}, App.js 395-399 *)
ClickSend ==
    /\ ~isSending
    /\ WithinBound
    /\ handleSend

(* onKeyDown, App.js 212-217 *)
OnKeyDown ==
    \E key \in {"Enter", "a"}, shiftKey \in BOOLEAN :
        IF key = "Enter" /\ ~shiftKey
        THEN WithinBound /\ handleSend
        ELSE UNCHANGED vars

\* a try block that replaces the status map by the payload's instead of merging
sendSucceededReplacesStatus(data) ==
    /\ messages' =
         IF "messages" \in DOMAIN data
         THEN messages \o
              [idx \in DOMAIN data.messages |->
                 LET m == data.messages[idx] IN
                 [id |-> <<"a", now, idx - 1>>, role |-> m.role, agentId |-> m.agentId,
                  content |-> m.content,
                  timestamp |-> IF "timestamp" \in DOMAIN m /\ m.timestamp # 0
                                THEN m.timestamp ELSE now]]
         ELSE messages
    /\ IF "agentStatus" \in DOMAIN data
       THEN /\ agentStatus' = data.agentStatus
            /\ timers' = timers
       ELSE /\ agentStatus' = StatusPair("responding", "thinking")
            /\ timers' = Append(timers, now + ResetDelay)

(* the rest of handleSend's try block, App.js 172-192 *)
sendSucceeded(data) ==
    /\ messages' =
         IF "messages" \in DOMAIN data
         THEN messages \o
              [idx \in DOMAIN data.messages |->
                 LET m == data.messages[idx] IN
                 [id |-> <<"a", now, idx - 1>>, role |-> m.role, agentId |-> m.agentId,
                  content |-> m.content,
                  timestamp |-> IF "timestamp" \in DOMAIN m /\ m.timestamp # 0
                                THEN m.timestamp ELSE now]]
         ELSE messages
    /\ IF "agentStatus" \in DOMAIN data
       THEN /\ agentStatus' = Spread(agentStatus, data.agentStatus)
            /\ timers' = timers
       ELSE /\ agentStatus' = StatusPair("responding", "thinking")
            /\ timers' = Append(timers, now + ResetDelay)

\* a catch block that marks agent_rag as error and keeps the other statuses
sendFailedKeepsOthers ==
    /\ messages' = Append(messages,
         [id |-> <<"err", now>>, role |-> "system", content |-> errorContent,
          timestamp |-> now, error |-> TRUE])
    /\ agentStatus' = Spread(agentStatus, "agent_rag" :> "error")
    /\ timers' = timers

\* a catch block that also starts the delayed reset
sendFailedSchedulesReset ==
    /\ messages' = Append(messages,
         [id |-> <<"err", now>>, role |-> "system", content |-> errorContent,
          timestamp |-> now, error |-> TRUE])
    /\ agentStatus' = StatusPair("error", "idle")
    /\ timers' = Append(timers, now + ResetDelay)

(* handleSend's catch block, App.js 193-205 *)
sendFailed ==
    /\ messages' = Append(messages,
         [id |-> <<"err", now>>, role |-> "system", content |-> errorContent,
          timestamp |-> now, error |-> TRUE])
    /\ agentStatus' = StatusPair("error", "idle")
    /\ timers' = timers

\* a handleSend that clears the flag at the end of the try block, with no finally
resumeWithoutFinally(i, result) ==
    /\ IF result.threw THEN sendFailed ELSE sendSucceeded(result.data)
    /\ isSending' = IF result.threw THEN isSending ELSE FALSE
    /\ calls' = RemoveAt(calls, i)
    /\ UNCHANGED <<input, now>>

(* handleSend after the awaited call has settled with `result`: try or catch, *)
(* then finally, App.js 170-208                                               *)
resume(i, result) ==
    /\ IF result.threw THEN sendFailed ELSE sendSucceeded(result.data)
    /\ isSending' = FALSE
    /\ calls' = RemoveAt(calls, i)
    /\ UNCHANGED <<input, now>>

(* `await fetch(url, ...)` settles, App.js 111-120: a rejection is rethrown to *)
(* handleSend at once; a response is read next (res.text() or res.json())      *)
FetchSettle ==
    \E i \in DOMAIN calls, outcome \in FetchOutcomes :
        /\ calls[i].stage = "fetch"
        /\ IF outcome.kind = "reject"
           THEN resume(i, sendMessageToBackend(calls[i].text, outcome))
           ELSE /\ calls' = [calls EXCEPT ![i] =
                               [text |-> calls[i].text, stage |-> "body", res |-> outcome]]
                /\ UNCHANGED <<messages, input, agentStatus, isSending, timers, now>>

(* `await res.text()` / `await res.json()` settles, App.js 117-128 *)
BodySettle ==
    \E i \in DOMAIN calls :
        /\ calls[i].stage = "body"
        /\ resume(i, sendMessageToBackend(calls[i].text, calls[i].res))

(* the callback of setTimeout(..., 1200) runs, App.js 189-191 *)
TimerFire ==
    /\ timers # <<>>
    /\ now >= Head(timers)
    /\ agentStatus' = StatusPair("idle", "idle")
    /\ timers' = Tail(timers)
    /\ UNCHANGED <<messages, input, isSending, calls, now>>

\* the clock readings the model samples: the first milliseconds after the mount,
\* and whole reset delays after it
ClockValues ==
    {StartTime + j : j \in 0..MaxSkew} \cup {StartTime + k * ResetDelay : k \in 1..MaxDelays}

(* Date.now() advances to a later reading *)
Tick ==
    \E t \in ClockValues :
        /\ t > now
        /\ now' = t
        /\ UNCHANGED <<messages, input, agentStatus, isSending, calls, timers>>

Next ==
    \/ OnChange
    \/ ClickSend
    \/ OnKeyDown
    \/ FetchSettle
    \/ BodySettle
    \/ TimerFire
    \/ Tick

Spec == Init /\ [][Next]_vars

----------------------------------------------------------------------------
(* The simulator alone: every text of SimTexts is given to                  *)
(* simulateAgentResponse, and the frame of the call keeps what it returned. *)

SimAlphabet == {"h", "o", "w", "H", "p", "l", "a", "n"}

ShortTexts == UNION {[1..n -> SimAlphabet] : n \in 0..MaxLen}

\* SliceLen - 2 characters, so that slice(0, 60) cuts the texts built on it
Filler == [k \in 1..(SliceLen - 2) |-> "x"]

SimTexts == ShortTexts \cup {Filler \o t : t \in ShortTexts}

SimStart ==
    /\ now = StartTime
    /\ messages = InitialMessages(now)
    /\ input \in SimTexts
    /\ agentStatus = StatusPair("idle", "idle")
    /\ isSending = FALSE
    /\ calls = <<>>
    /\ timers = <<>>

SimApply ==
    /\ calls = <<>>
    /\ calls' = << [text |-> input, stage |-> "returned",
                    data |-> simulateAgentResponse(input)] >>
    /\ UNCHANGED <<messages, input, agentStatus, isSending, timers, now>>

SimNext == SimApply

SimSpec == SimStart /\ [][SimNext]_vars

----------------------------------------------------------------------------
(* Vocabulary of the properties, stated on a step (unprimed to primed). *)

Last(s) == s[Len(s)]

\* messages' is messages with n more entries
AppendedCount(n) ==
    /\ Len(messages') = Len(messages) + n
    /\ \A k \in DOMAIN messages : messages'[k] = messages[k]

\* the text has a character that trim keeps
Sendable(s) == \E k \in DOMAIN s : s[k] \notin WhiteSpace

\* c is s without its leading and trailing white space
IsTrimOf(c, s) ==
    \E a \in 0..Len(s) :
        /\ a + Len(c) <= Len(s)
        /\ SubSeq(s, a + 1, a + Len(c)) = c
        /\ \A k \in 1..a : s[k] \in WhiteSpace
        /\ \A k \in (a + Len(c) + 1)..Len(s) : s[k] \in WhiteSpace
        /\ c # <<>> => (c[1] \notin WhiteSpace /\ c[Len(c)] \notin WhiteSpace)

\* in this step the backend call of frame i settles as a failure: the fetch
\* rejects, or the response read was not ok
FailsNow(i) ==
    /\ calls' = RemoveAt(calls, i)
    /\ IF calls[i].stage = "fetch" THEN TRUE ELSE ~calls[i].res.ok

\* in this step the backend call of frame i settles as a success
SucceedsNow(i) ==
    /\ calls' = RemoveAt(calls, i)
    /\ calls[i].stage = "body"
    /\ calls[i].res.ok

\* the data handleSend gets from the successful call of frame i
DataOf(i) == sendMessageToBackend(calls[i].text, calls[i].res).data

\* sequence s begins with sequence t
StartsWith(s, t) == Len(s) >= Len(t) /\ \A k \in DOMAIN t : s[k] = t[k]

\* no agent of the map is shown as busy
NoneBusy(st) == \A k \in DOMAIN st : st[k] \notin {"thinking", "responding"}

----------------------------------------------------------------------------
(* C1: a send requested (Enter key or button) while a send is in flight     *)
(* changes neither the Message Store nor the set of backend calls, a call   *)
(* is only ever started by a send made while idle (nothing is queued), and  *)
(* at most one backend call is outstanding in every reachable state.        *)
C1_SendWhileSendingIsNoOp ==
    /\ [][(isSending /\ (OnKeyDown \/ ClickSend)) =>
            (messages' = messages /\ calls' = calls /\ isSending')]_vars
    /\ [][(Len(calls') > Len(calls)) => ~isSending]_vars
    /\ [](Len(calls) <= 1)

\* a send is in flight and the composer holds a sendable text: Enter is refused here
C1_Witness ==
    /\ isSending
    /\ Len(calls) = 1
    /\ Sendable(input)

(* C2: a send made while idle with a text that is not all white space       *)
(* appends exactly one message, role user, content the trimmed text, and    *)
(* the backend call of that send is still unsettled in the resulting state; *)
(* with an empty or all-white-space text nothing is appended.               *)
C2_IdleSendAppendsUserMessage ==
    [][(~isSending /\ handleSend) =>
         IF Sendable(input)
         THEN /\ AppendedCount(1)
              /\ Last(messages').role = "user"
              /\ Last(messages').id = <<"u", now>>
              /\ IsTrimOf(Last(messages').content, input)
              /\ Len(calls') = Len(calls) + 1
              /\ Last(calls').stage = "fetch"
              /\ Last(calls').text = Last(messages').content
         ELSE messages' = messages /\ calls' = calls]_vars

\* the trimmed text is the last message and its backend call has not settled
C2_Witness ==
    /\ Last(messages).role = "user"
    /\ Last(messages).content = <<"H", "o", "w", "?">>
    /\ Len(calls) = 1
    /\ calls[1].stage = "fetch"

C4_StatusMerge ==
    [][\A i \in DOMAIN calls :
         (SucceedsNow(i) /\ "agentStatus" \in DOMAIN DataOf(i)) =>
            LET payload == DataOf(i).agentStatus IN
            /\ DOMAIN agentStatus' = (DOMAIN agentStatus) \cup (DOMAIN payload)
            /\ \A k \in DOMAIN payload : agentStatus'[k] = payload[k]
            /\ \A k \in (DOMAIN agentStatus) \ (DOMAIN payload) :
                   agentStatus'[k] = agentStatus[k]
            /\ timers' = timers]_vars

\* merged: agent_planner and agent_x from the payload, agent_rag kept from before
C4_Witness ==
    /\ ~isSending
    /\ DOMAIN agentStatus = {"agent_rag", "agent_planner", "agent_x"}
    /\ agentStatus["agent_rag"] = "thinking"
    /\ agentStatus["agent_planner"] = "responding"
    /\ agentStatus["agent_x"] = "thinking"

(* C5: the in-flight flag is set exactly while a backend call is            *)
(* outstanding: once the call of a send has settled, whatever the outcome,  *)
(* the flag is clear again, so the next send is accepted.                   *)
C5_FlagClearedWhenSettled == isSending <=> calls # <<>>

\* a second send was accepted after the first one had failed and settled
C5_Witness ==
    /\ isSending
    /\ SendCount = 2
    /\ \E k \in DOMAIN messages : messages[k].role = "system"

(* C6: when the backend call of a send fails (fetch rejects, or the         *)
(* response is not ok) the send still yields the simulator's replies for    *)
(* its text: the two simulated agent messages are appended.                 *)
C6_FallbackOnFailure ==
    [][\A i \in DOMAIN calls :
         FailsNow(i) =>
            LET sim == simulateAgentResponse(calls[i].text).messages IN
            /\ AppendedCount(Len(sim))
            /\ \A k \in DOMAIN sim :
                  /\ messages'[Len(messages) + k].role = "agent"
                  /\ messages'[Len(messages) + k].content = sim[k].content]_vars

(* C8: in every reachable state the messages of the Message Store have      *)
(* pairwise distinct ids.                                                   *)
C8_DistinctIds ==
    \A j, k \in DOMAIN messages : j # k => messages[j].id # messages[k].id

(* C9: a send that succeeds without agentStatus in its data sets agent_rag  *)
(* to responding and agent_planner to thinking and starts a timer due one   *)
(* reset delay later; a pending timer is never cancelled: no step removes   *)
(* or changes one except its own firing, which sets every agent to idle,    *)
(* whether or not a later send is in flight or has settled.                 *)
C9_ResetNeverCancelled ==
    /\ [][\A i \in DOMAIN calls :
            (SucceedsNow(i) /\ "agentStatus" \notin DOMAIN DataOf(i)) =>
               /\ agentStatus' = StatusPair("responding", "thinking")
               /\ timers' = Append(timers, now + ResetDelay)]_vars
    /\ [][(timers # <<>> /\ ~StartsWith(timers', timers)) =>
            /\ timers' = Tail(timers)
            /\ now >= Head(timers)
            /\ agentStatus' = StatusPair("idle", "idle")]_vars
    /\ []((timers # <<>> /\ now >= Head(timers)) => ENABLED TimerFire)

\* the timer of the first send fired while the second send was in flight and
\* replaced its optimistic thinking by idle
C9_Witness ==
    /\ isSending
    /\ SendCount = 2
    /\ timers = <<>>
    /\ agentStatus = StatusPair("idle", "idle")

(* C10: a timer is started only by a send that succeeds without agentStatus *)
(* in its data; a send that settles with agentStatus (the simulator's       *)
(* result included) or fails starts none; and while no send is in flight    *)
(* the status map changes only when a send begins or a pending timer fires. *)
C10_ResetOnlyWithoutStatus ==
    /\ [][(Len(timers') > Len(timers)) =>
            \E i \in DOMAIN calls :
                SucceedsNow(i) /\ "agentStatus" \notin DOMAIN DataOf(i)]_vars
    /\ [][\A i \in DOMAIN calls :
            (calls' = RemoveAt(calls, i)
               /\ ~(SucceedsNow(i) /\ "agentStatus" \notin DOMAIN DataOf(i)))
            => timers' = timers]_vars
    /\ [][(~isSending /\ agentStatus' # agentStatus) =>
            \/ isSending' /\ Len(calls') = Len(calls) + 1
            \/ timers # <<>> /\ now >= Head(timers) /\ timers' = Tail(timers)]_vars

\* the simulator's statuses are still shown a reset delay after the send settled,
\* with no timer pending
C10_Witness ==
    /\ ~isSending
    /\ timers = <<>>
    /\ now >= StartTime + ResetDelay
    /\ Last(messages).content = plannerReplyPlan
    /\ Last(messages).timestamp = StartTime
    /\ agentStatus = StatusPair("responding", "thinking")

----------------------------------------------------------------------------
(* Properties of the simulator, under SimSpec. *)

\* the text holds word (given in lower case) at some place, in any letter case
HoldsIgnoringCase(text, word) ==
    \E k \in 0..(Len(text) - Len(word)) :
        \A j \in DOMAIN word :
            \/ text[k + j] = word[j]
            \/ \E u \in DOMAIN UpperCase : UpperCase[u] = text[k + j] /\ LowerCase[u] = word[j]

(* C7: for every text the simulator returns exactly two agent messages,     *)
(* agent_rag's first and agent_planner's second, and the statuses           *)
(* agent_rag responding, agent_planner thinking; the planner's message is   *)
(* the step-by-step template, which contains "Analyze", exactly when the    *)
(* text holds "plan" or "how" in any letter case, and the generic template  *)
(* otherwise; agent_rag's message contains the first 60 characters of the   *)
(* text.                                                                    *)
C7_Simulator ==
    \A i \in DOMAIN calls :
        calls[i].stage = "returned" =>
            LET out == calls[i].data
                text == calls[i].text
                helpful == \/ HoldsIgnoringCase(text, <<"p","l","a","n">>)
                           \/ HoldsIgnoringCase(text, <<"h","o","w">>)
                head == SubSeq(text, 1, IF Len(text) < 60 THEN Len(text) ELSE 60)
            IN  /\ DOMAIN out = {"messages", "agentStatus"}
                /\ Len(out.messages) = 2
                /\ out.messages[1].role = "agent"
                /\ out.messages[1].agentId = "agent_rag"
                /\ out.messages[2].role = "agent"
                /\ out.messages[2].agentId = "agent_planner"
                /\ DOMAIN out.agentStatus = {"agent_rag", "agent_planner"}
                /\ out.agentStatus["agent_rag"] = "responding"
                /\ out.agentStatus["agent_planner"] = "thinking"
                /\ out.messages[2].content =
                      IF helpful THEN plannerReplyPlan ELSE plannerReplyGeneric
                /\ helpful <=>
                      includes(out.messages[2].content, <<"A","n","a","l","y","z","e">>)
                /\ includes(out.messages[1].content, head)

\* the simulator has answered a text longer than 60 characters whose "how" is in
\* capitals and lies across the cut
C7_Witness ==
    /\ calls # <<>>
    /\ calls[1].stage = "returned"
    /\ calls[1].text = Filler \o <<"a", "H", "o", "w">>
    /\ calls[1].data.messages[2].content = plannerReplyPlan

====
